---- MODULE Spec2Model ----
(***************************************************************************)
(* The chat client's conversation/message state (ChatProvider in           *)
(* frontend/src/contexts/ChatContext.tsx) together with the record store   *)
(* it talks to through chatApi and conversationsApi.                       *)
(*                                                                         *)
(* Every async handler of ChatProvider is one task: a record that holds    *)
(* the values its closure captured when it was invoked and the await it    *)
(* is parked on.  A request is "req" until the server has processed it    *)
(* and "resp" until its continuation runs on the client; state setters     *)
(* with an updater function (setMessages(prev => ...)) act on the state    *)
(* of the moment the continuation runs, plain reads of a state variable    *)
(* after an await read the captured value.                                 *)
(***************************************************************************)
EXTENDS Naturals, Sequences, FiniteSets

\* Number of async handler invocations (select, send, regenerate, delete)
\* the user starts in one run.
MaxOps == 3

\* Date.now() is TempBase + clock: locally generated ids lie above every id the
\* record store assigns.
TempBase == 100

Contents == {"hi", " "}     \* texts typed into MessageInput
ReplyText == "reply"        \* assistant text of a send
RegenText == "regen"        \* assistant text of a regenerate

VARIABLES
  conversations,        \* useState<Conversation[]>          (client)
  currentConversation,  \* useState<Conversation | null>     (client)
  messages,             \* useState<Message[]>, the displayed list
  loadingConversation,  \* useState(false)
  sendingMessage,       \* useState(false)
  tasks,                \* the handler invocations, in order of invocation
  nOps,                 \* how many handlers were invoked so far
  clock,                \* the millisecond clock behind Date.now()
  loadPc,               \* the loadConversations() call of the mount effect
  loadResp,             \* ... and its response
  srvConvs,             \* record store: conversations, indexed by id
  srvNextMsg,           \* record store: next message id
  reqs,                 \* the chat requests the Mode Dispatcher is handling
  message,              \* MessageInput: useState(''), the input field
  user,                 \* AuthProvider: useState<User | null>(null)
  token,                \* AuthProvider: useState<string | null>(null)
  loading,              \* AuthProvider: useState(true)
  localStorage,         \* the items 'access_token' and 'user'
  authPc,               \* initializeAuth(): "mount", "verify", "done"
  calls,                \* the requests that went through apiClient
  nCalls,               \* how many requests were issued so far
  navigating,           \* window.location.href was assigned '/login'
  unauthorized          \* a 401 was answered and no login succeeded since

vars == <<conversations, currentConversation, messages, loadingConversation,
          sendingMessage, tasks, nOps, clock, loadPc, loadResp, srvConvs,
          srvNextMsg, reqs, message, user, token, loading, localStorage,
          authPc, calls, nCalls, navigating, unauthorized>>

client == <<conversations, currentConversation, messages, loadingConversation,
            sendingMessage>>
server == <<srvConvs, srvNextMsg>>
loader == <<loadPc, loadResp>>
auth == <<user, token, loading, localStorage, authPc, calls, nCalls,
          navigating, unauthorized>>

----------------------------------------------------------------------------
\* Values

\* Message of types.ts (id, conversation_id, role, content).
Msg(id, cid, role, content) ==
  [id |-> id, conversation_id |-> cid, role |-> role, content |-> content]

NoMsg == Msg(0, 0, "", "")

\* Conversation of types.ts (id, title); id 0 stands for null.
Conv(id, title) == [id |-> id, title |-> title]

NoConv == Conv(0, "")

\* Array.prototype.find on the lists of the client state.
HasId(s, id) == \E k \in 1..Len(s) : s[k].id = id

FindById(s, id) == s[CHOOSE k \in 1..Len(s) : s[k].id = id /\ \A j \in 1..(k-1) : s[j].id # id]

Ids(s) == {s[k].id : k \in 1..Len(s)}

\* A handler invocation that has not been made yet.
IdleTask ==
  [kind |-> "none", pc |-> "idle", arg |-> 0, capCur |-> 0, tmpId |-> 0,
   content |-> "", outcome |-> "", errs |-> 0, navigated |-> FALSE,
   wiped |-> FALSE, away |-> FALSE, respCid |-> 0, respConv |-> NoConv,
   respMsg |-> NoMsg, respMsgs |-> <<>>, seen |-> {}, after |-> {},
   base |-> <<>>]

InFlight(t) == t.pc \notin {"idle", "done"}

TaskIds == 1..MaxOps

----------------------------------------------------------------------------
\* The updater functions ChatProvider hands to its state setters.

\* selectConversation: setConversations(prev => ...) for a fetched conversation.
upsertAppended(prev, conversation) ==
  IF HasId(prev, conversation.id)
  THEN [k \in 1..Len(prev) |-> IF prev[k].id = conversation.id THEN conversation ELSE prev[k]]
  ELSE Append(prev, conversation)

\* sendMessage: setConversations(prev => ...) for the conversation just created.
upsertPrepended(prev, newConversation) ==
  IF HasId(prev, newConversation.id)
  THEN [k \in 1..Len(prev) |-> IF prev[k].id = newConversation.id THEN newConversation ELSE prev[k]]
  ELSE <<newConversation>> \o prev

\* sendMessage: the optimistic message; now is Date.now(), conversationId is
\* currentConversation?.id (0 when undefined).
optimisticMessage(now, conversationId, messageContent) ==
  Msg(now, conversationId, "user", messageContent)

\* sendMessage, conversation just created: setMessages(prev => ...); now is the
\* Date.now() read inside the updater.
reconcileCreated(prev, optimistic, now, cid, responseMessage) ==
  Append([k \in 1..Len(prev) |-> IF prev[k].id = optimistic.id
                                  THEN [optimistic EXCEPT !.id = now - 1,
                                                          !.conversation_id = cid]
                                  ELSE prev[k]],
         responseMessage)

\* reconcileExisting with the assistant message put first, the way
\* upsertPrepended inserts.
reconcileExisting_prepends(prev, optimistic, cid, responseMessage) ==
  <<responseMessage>> \o
  [k \in 1..Len(prev) |-> IF prev[k].id = optimistic.id /\ prev[k].conversation_id = 0
                           THEN [prev[k] EXCEPT !.conversation_id = cid]
                           ELSE prev[k]]

\* sendMessage, existing conversation: setMessages(prev => ...).
reconcileExisting(prev, optimistic, cid, responseMessage) ==
  Append([k \in 1..Len(prev) |-> IF prev[k].id = optimistic.id /\ prev[k].conversation_id = 0
                                  THEN [prev[k] EXCEPT !.conversation_id = cid]
                                  ELSE prev[k]],
         responseMessage)

\* removeOptimistic with the filter's comparison inverted.
removeOptimistic_inverted(prev, optimisticId) ==
  SelectSeq(prev, LAMBDA m : m.id = optimisticId)

\* sendMessage, catch: setMessages(prev => prev.filter(...)).
removeOptimistic(prev, optimisticId) ==
  SelectSeq(prev, LAMBDA m : m.id # optimisticId)

\* replaceRegenerated that drops the target and appends the new message.
replaceRegenerated_moves(prev, messageId, responseMessage) ==
  Append(SelectSeq(prev, LAMBDA m : m.id # messageId), responseMessage)

\* regenerateMessage: setMessages(prev => prev.map(...)).
replaceRegenerated(prev, messageId, responseMessage) ==
  [k \in 1..Len(prev) |-> IF prev[k].id = messageId THEN responseMessage ELSE prev[k]]

\* deleteConversation: setConversations(prev => prev.filter(...)).
removeConversation(prev, conversationId) ==
  SelectSeq(prev, LAMBDA c : c.id # conversationId)

----------------------------------------------------------------------------
\* The record store behind /chat and /conversations.

SrvAlive(c) == c \in 1..Len(srvConvs) /\ srvConvs[c].alive

SrvConv(id, title, msgs) == [id |-> id, title |-> title, alive |-> TRUE, msgs |-> msgs]

\* The assistant messages the store holds, with the conversation of each.
SrvAssistantAt(c, m) ==
  /\ SrvAlive(c)
  /\ \E k \in 1..Len(srvConvs[c].msgs) :
        srvConvs[c].msgs[k].id = m /\ srvConvs[c].msgs[k].role = "assistant"

----------------------------------------------------------------------------
\* The Mode Dispatcher behind POST /chat/send: one record per chat request.

\* Number of chat requests the dispatcher handles in one run.
MaxReqs == 2

\* Length of the longest history the store starts with.
MaxHistory == 12

\* W, the window size of the Context Windower.
CHAT_MEMORY_BUFFER_SIZE == 10

\* M, the iteration ceiling of the Agent Loop.
LLAMAINDEX_MAX_ITERATIONS == 5

\* The values ModelSelector offers for selectedModel, and its initial ''.
ModelNames == {"", "llama3:latest", "internet", "auto"}

\* tool_selection values a caller of the API may send that are no mode.
UnknownModes == {"", "turbo"}

SearchText == "results"     \* the formatted rendering of search snippets
GroundedText == "grounded"  \* a completion over a transcript with observations

ReqIds == 1..MaxReqs

\* What an Inference Adapter call was given.
InferenceInput(history, observations) ==
  [history |-> history, observations |-> observations]

\* A request that has not arrived yet.
IdleReq ==
  [pc |-> "idle", origin |-> "", model |-> "", mode |-> "", cid |-> 0, text |-> "",
   before |-> <<>>, window |-> <<>>, iter |-> 0, obs |-> 0, called |-> {},
   agentCalls |-> 0, fellBack |-> FALSE, toolUsed |-> "", answer |-> "",
   from |-> InferenceInput(<<>>, 0), status |-> "", userId |-> 0,
   asstId |-> 0, respCid |-> 0]

\* toolSelection that takes the initial, empty selectedModel for the agent.
toolSelection_emptyIsAuto(selectedModel) ==
  IF selectedModel = "internet" THEN "internet"
  ELSE IF selectedModel \in {"auto", ""} THEN "auto"
  ELSE "none"

\* sendMessage: the tool_selection field of the request, from selectedModel.
toolSelection(selectedModel) ==
  IF selectedModel = "internet" THEN "internet"
  ELSE IF selectedModel = "auto" THEN "auto"
  ELSE "none"

\* Transition selection of the dispatcher, from the request's mode field.
Branch(mode) ==
  IF mode = "internet" THEN "InternetBranch"
  ELSE IF mode = "auto" THEN "AutoBranch"
  ELSE "NoneBranch"

\* ContextWindow that keeps the oldest W messages.
ContextWindow_oldest(history, W) ==
  IF Len(history) > W THEN SubSeq(history, 1, W) ELSE history

\* Context Windower: at most the W most recent messages, oldest first.  A
\* chat request carries no system prompt, so none is prepended.
ContextWindow(history, W) ==
  IF Len(history) > W
  THEN SubSeq(history, Len(history) - W + 1, Len(history))
  ELSE history

\* Inference Adapter, successful completion: the text is a function of the
\* windowed history and of the observations in the transcript.
Complete(history, observations) ==
  IF observations = 0 THEN ReplyText ELSE GroundedText

\* A stored history of h messages, user and assistant in turn.
History(h) ==
  [k \in 1..h |-> Msg(k, 1, IF k % 2 = 1 THEN "user" ELSE "assistant",
                            IF k % 2 = 1 THEN "hi" ELSE ReplyText)]

HistoryLens == {2, MaxHistory - 1, MaxHistory}

----------------------------------------------------------------------------
\* The session: AuthProvider's state, localStorage and the requests that go
\* through apiClient's interceptors.

MaxCalls == 3
CallIds == 1..MaxCalls

null == "null"
Users == {"alice", "alice2"}
Tokens == {"tokA", "tokB"}

\* JSON.stringify of a user record, and JSON.parse, which throws on a string
\* that is not JSON.
JSONstringify(u) == CASE u = "alice" -> "{alice}" [] u = "alice2" -> "{alice2}"
Parses(str) == \E u \in Users : JSONstringify(u) = str
JSONparse(str) == CHOOSE u \in Users : JSONstringify(u) = str
Corrupt == "{alice"

getItem(storage, key) == storage[key]
setItem(storage, key, value) == [storage EXCEPT ![key] = value]
removeItem(storage, key) == [storage EXCEPT ![key] = null]
NoSession == [access_token |-> null, user |-> null]

\* The Authorization header of a request.
NoHeader == <<>>
Bearer(t) == <<"Bearer", t>>

\* apiClient.interceptors.request: the header is read from localStorage when
\* the request is issued.
requestInterceptor_fromState(storage) ==
  IF token # null THEN Bearer(token) ELSE NoHeader

requestInterceptor(storage) ==
  IF getItem(storage, "access_token") # null
  THEN Bearer(getItem(storage, "access_token"))
  ELSE NoHeader

\* The answers that reject a request: 401, and any other failure.
Rejections == {401, 500}

\* apiClient.interceptors.response, error branch: what it leaves in
\* localStorage.
responseInterceptor_keepsToken(storage, status) ==
  IF status = 401 THEN removeItem(storage, "user") ELSE storage

responseInterceptor(storage, status) ==
  IF status = 401
  THEN removeItem(removeItem(storage, "access_token"), "user")
  ELSE storage

IdleCall == [kind |-> "none", pc |-> "idle", header |-> NoHeader, status |-> 0]
request(kind) ==
  [kind |-> kind, pc |-> "sent", header |-> requestInterceptor(localStorage),
   status |-> 0]
settle(i, status) == [calls EXCEPT ![i] = [@ EXCEPT !.pc = "done", !.status = status]]

\* The session of the chat page: a login succeeded and initialization is
\* over.
LoggedIn ==
  /\ user = "alice"
  /\ token = "tokA"
  /\ loading = FALSE
  /\ localStorage = [access_token |-> "tokA", user |-> JSONstringify("alice")]
  /\ authPc = "done"
  /\ calls = [i \in CallIds |-> IdleCall]
  /\ nCalls = 0
  /\ navigating = FALSE
  /\ unauthorized = FALSE


----------------------------------------------------------------------------
\* ChatProvider has just mounted: its state holds the useState defaults and
\* the mount effect has called loadConversations().  The store holds two
\* conversations of earlier sessions, each one exchange long.

Init ==
  /\ conversations = <<>>
  /\ currentConversation = NoConv
  /\ messages = <<>>
  /\ loadingConversation = FALSE
  /\ sendingMessage = FALSE
  /\ tasks = [i \in TaskIds |-> IdleTask]
  /\ nOps = 0
  /\ clock = 1
  /\ loadPc = "req"
  /\ loadResp = <<>>
  /\ srvConvs = << SrvConv(1, "hi", << Msg(1, 1, "user", "hi"),
                                      Msg(2, 1, "assistant", ReplyText) >>),
                   SrvConv(2, "hi", << Msg(3, 2, "user", "hi"),
                                      Msg(4, 2, "assistant", ReplyText) >>) >>
  /\ srvNextMsg = 5
  /\ reqs = [r \in ReqIds |-> IdleReq]
  /\ message = ""
  /\ LoggedIn

\* The sends and regenerates still in flight learn that the user navigated
\* (selectConversation, createNewConversation) or that another handler
\* replaced the displayed list.  Bookkeeping of the model, read by the
\* properties only.
MarkNavigated(ts) ==
  [k \in TaskIds |-> IF InFlight(ts[k]) /\ ts[k].kind \in {"send", "regen"}
                     THEN [ts[k] EXCEPT !.navigated = TRUE] ELSE ts[k]]

MarkWiped(ts) ==
  [k \in TaskIds |-> IF InFlight(ts[k]) /\ ts[k].kind \in {"send", "regen"}
                     THEN [ts[k] EXCEPT !.wiped = TRUE] ELSE ts[k]]

\* The handlers in flight when a handler is invoked, and the sends to
\* conversation c that completed while another conversation was displayed
\* (bookkeeping, as above).
InFlightNow == {k \in TaskIds : InFlight(tasks[k])}

SendsAppliedAway(c) ==
  {k \in TaskIds : /\ tasks[k].kind = "send" /\ tasks[k].pc = "done"
                   /\ tasks[k].outcome = "ok" /\ tasks[k].away
                   /\ tasks[k].respCid = c}

----------------------------------------------------------------------------
\* loadConversations (mount effect)

srvListConversations ==
  /\ loadPc = "req"
  /\ loadPc' = "resp"
  /\ loadResp' = SelectSeq([k \in 1..Len(srvConvs) |->
                              IF srvConvs[k].alive
                              THEN Conv(srvConvs[k].id, srvConvs[k].title) ELSE NoConv],
                           LAMBDA c : c # NoConv)
  /\ UNCHANGED <<client, tasks, nOps, clock, server, reqs, message, auth>>

loadConversations_resolved ==
  /\ loadPc = "resp"
  /\ conversations' = loadResp
  /\ loadPc' = "done"
  /\ loadResp' = <<>>
  /\ UNCHANGED <<currentConversation, messages, loadingConversation,
                 sendingMessage, tasks, nOps, clock, server, reqs, message, auth>>

loadConversations_catch ==
  /\ loadPc = "req"
  /\ loadPc' = "failed"
  /\ UNCHANGED <<client, tasks, nOps, clock, loadResp, server, reqs, message, auth>>

----------------------------------------------------------------------------
\* selectConversation(conversationId)

selectConversation(conversationId) ==
  /\ nOps < MaxOps
  /\ LET found == HasId(conversations, conversationId)
         conversation == IF found THEN FindById(conversations, conversationId) ELSE NoConv
         t == [IdleTask EXCEPT !.kind = "select",
                               !.pc = IF found THEN "sel_msgs_req" ELSE "sel_conv_req",
                               !.arg = conversationId,
                               !.respConv = conversation,
                               !.seen = InFlightNow,
                               !.after = SendsAppliedAway(conversationId)]
     IN /\ messages' = <<>>
        /\ loadingConversation' = TRUE
        /\ currentConversation' = IF found THEN conversation ELSE currentConversation
        /\ tasks' = [MarkNavigated(tasks) EXCEPT ![nOps + 1] = t]
  /\ nOps' = nOps + 1
  /\ UNCHANGED <<conversations, sendingMessage, clock, loader, server, reqs, message, auth>>

\* GET /conversations/{id}, for selectConversation and for sendMessage.
srvGetConversation(i) ==
  /\ tasks[i].pc \in {"sel_conv_req", "send_conv_req"}
  /\ LET c == IF tasks[i].kind = "select" THEN tasks[i].arg ELSE tasks[i].respCid
     IN /\ SrvAlive(c)
        /\ tasks' = [tasks EXCEPT ![i] =
              [@ EXCEPT !.pc = IF @ = "sel_conv_req" THEN "sel_conv_resp" ELSE "send_conv_resp",
                        !.respConv = Conv(c, srvConvs[c].title)]]
  /\ UNCHANGED <<client, nOps, clock, loader, server, reqs, message, auth>>

\* The continuation after await conversationsApi.getConversation.
selectConversation_fetched(i) ==
  /\ tasks[i].pc = "sel_conv_resp"
  /\ conversations' = upsertAppended(conversations, tasks[i].respConv)
  /\ currentConversation' = tasks[i].respConv
  /\ tasks' = [tasks EXCEPT ![i] = [@ EXCEPT !.pc = "sel_msgs_req"]]
  /\ UNCHANGED <<messages, loadingConversation, sendingMessage, nOps, clock,
                 loader, server, reqs, message, auth>>

\* GET /conversations/{id}/messages.
srvGetMessages(i) ==
  /\ tasks[i].pc = "sel_msgs_req"
  /\ SrvAlive(tasks[i].arg)
  /\ tasks' = [tasks EXCEPT ![i] =
        [@ EXCEPT !.pc = "sel_msgs_resp", !.respMsgs = srvConvs[tasks[i].arg].msgs]]
  /\ UNCHANGED <<client, nOps, clock, loader, server, reqs, message, auth>>

\* selectLoaded that takes the response as newest first.
selectLoaded_reversed(prev, conversationMessages) ==
  [k \in 1..Len(conversationMessages) |->
     conversationMessages[Len(conversationMessages) + 1 - k]]

\* What selectConversation stores once getMessages has returned.
selectLoaded(prev, conversationMessages) == conversationMessages

\* The continuation after await conversationsApi.getMessages, and finally.
selectConversation_resolved(i) ==
  /\ tasks[i].pc = "sel_msgs_resp"
  /\ messages' = selectLoaded(messages, tasks[i].respMsgs)
  /\ loadingConversation' = FALSE
  /\ tasks' = [MarkWiped(tasks) EXCEPT ![i] =
        [@ EXCEPT !.pc = "done", !.outcome = "ok", !.respMsgs = <<>>,
                  !.respConv = NoConv]]
  /\ UNCHANGED <<conversations, currentConversation, sendingMessage, nOps,
                 clock, loader, server, reqs, message, auth>>

\* catch and finally: either fetch was rejected.
selectConversation_catch(i) ==
  /\ tasks[i].pc \in {"sel_conv_req", "sel_msgs_req"}
  /\ currentConversation' = NoConv
  /\ messages' = <<>>
  /\ loadingConversation' = FALSE
  /\ tasks' = [MarkWiped(tasks) EXCEPT ![i] =
        [@ EXCEPT !.pc = "done", !.outcome = "failed", !.errs = @ + 1,
                  !.respConv = NoConv]]
  /\ UNCHANGED <<conversations, sendingMessage, nOps, clock, loader, server, reqs, message, auth>>

----------------------------------------------------------------------------
\* createNewConversation()

\* createNewConversation that creates the conversation at once, through
\* conversationsApi.createConversation, and lists it.
createNewConversation_persists ==
  /\ currentConversation' = NoConv
  /\ messages' = <<>>
  /\ tasks' = MarkNavigated(tasks)
  /\ srvConvs' = Append(srvConvs, SrvConv(Len(srvConvs) + 1, "", <<>>))
  /\ conversations' = <<Conv(Len(srvConvs) + 1, "")>> \o conversations
  /\ UNCHANGED <<loadingConversation, sendingMessage, nOps, clock, loader,
                 srvNextMsg, reqs, message, auth>>

createNewConversation ==
  /\ currentConversation' = NoConv
  /\ messages' = <<>>
  /\ tasks' = MarkNavigated(tasks)
  /\ UNCHANGED <<conversations, loadingConversation, sendingMessage, nOps,
                 clock, loader, server, reqs, message, auth>>

----------------------------------------------------------------------------
\* MessageInput.handleSend -> sendMessage(messageContent)

\* trim() that leaves whitespace-only text as it is.
Trim_keepsBlank(text) == text

\* String.prototype.trim on the texts of Contents.
Trim(text) == IF text \in {"", " "} THEN "" ELSE text

\* How the promise returned by sendMessage settles.  Its catch block reports
\* the error and removes the optimistic message; nothing is thrown again, so
\* the promise is fulfilled whether the send succeeded or failed.
sendMessage_promise(outcome) == "fulfilled"

\* handleSend after await sendMessage(messageToSend): the field is written
\* only in handleSend's own catch block.
handleSend_settled(input, messageToSend, promise) ==
  IF promise = "rejected" THEN messageToSend ELSE input

\* handleSend's guard, the field set to '', sendMessage's guards, the
\* optimistic insert and the request, up to await chatApi.sendMessage.  The
\* text is what the user typed into the field before pressing Send.
sendMessage(text) ==
  /\ nOps < MaxOps
  /\ Trim(text) # "" /\ ~sendingMessage /\ ~loadingConversation
  /\ LET conversationId == currentConversation.id
         optimistic == optimisticMessage(TempBase + clock, conversationId, Trim(text))
         t == [IdleTask EXCEPT !.kind = "send", !.pc = "send_req",
                               !.arg = conversationId, !.capCur = conversationId,
                               !.tmpId = optimistic.id, !.content = optimistic.content,
                               !.seen = InFlightNow, !.base = messages]
     IN /\ messages' = Append(messages, optimistic)
        /\ tasks' = [tasks EXCEPT ![nOps + 1] = t]
  /\ sendingMessage' = TRUE
  /\ message' = ""
  /\ nOps' = nOps + 1
  /\ clock' = clock + 1
  /\ UNCHANGED <<conversations, currentConversation, loadingConversation,
                 loader, server, reqs, auth>>

\* POST /chat/send: the conversation is created when the request names none;
\* the user message and the assistant message are appended together.
srvSend(i) ==
  /\ tasks[i].pc = "send_req"
  /\ tasks[i].arg = 0 \/ SrvAlive(tasks[i].arg)
  /\ LET c == IF tasks[i].arg = 0 THEN Len(srvConvs) + 1 ELSE tasks[i].arg
         userMsg == Msg(srvNextMsg, c, "user", tasks[i].content)
         asstMsg == Msg(srvNextMsg + 1, c, "assistant", ReplyText)
     IN /\ srvConvs' = IF tasks[i].arg = 0
                       THEN Append(srvConvs, SrvConv(c, tasks[i].content, <<userMsg, asstMsg>>))
                       ELSE [srvConvs EXCEPT ![c].msgs = @ \o <<userMsg, asstMsg>>]
        /\ tasks' = [tasks EXCEPT ![i] =
              [@ EXCEPT !.pc = "send_resp", !.respCid = c, !.respMsg = asstMsg]]
  /\ srvNextMsg' = srvNextMsg + 2
  /\ UNCHANGED <<client, nOps, clock, loader, reqs, message, auth>>

\* The continuation after await chatApi.sendMessage, currentConversation (as
\* captured) not null: the else branch, and finally.
sendMessage_resolvedExisting(i) ==
  /\ tasks[i].pc = "send_resp"
  /\ tasks[i].capCur # 0
  /\ LET t == tasks[i]
         optimistic == optimisticMessage(t.tmpId, t.capCur, t.content)
     IN /\ messages' = reconcileExisting(messages, optimistic, t.respCid, t.respMsg)
        /\ tasks' = [tasks EXCEPT ![i] =
              [@ EXCEPT !.pc = "done", !.outcome = "ok",
                        !.away = (currentConversation.id # t.respCid)]]
  /\ sendingMessage' = FALSE
  /\ message' = handleSend_settled(message, tasks[i].content, sendMessage_promise("ok"))
  /\ UNCHANGED <<conversations, currentConversation, loadingConversation,
                 nOps, clock, loader, server, reqs, auth>>

\* The continuation after await chatApi.sendMessage, currentConversation (as
\* captured) null: the request of conversationsApi.getConversation.
sendMessage_fetchCreated(i) ==
  /\ tasks[i].pc = "send_resp"
  /\ tasks[i].capCur = 0
  /\ tasks' = [tasks EXCEPT ![i] = [@ EXCEPT !.pc = "send_conv_req"]]
  /\ UNCHANGED <<client, nOps, clock, loader, server, reqs, message, auth>>

\* The continuation after await conversationsApi.getConversation, and
\* finally.  Date.now() inside the updater reads the clock, which has
\* advanced by at least a millisecond since the optimistic insert.
sendMessage_resolvedCreated(i) ==
  /\ tasks[i].pc = "send_conv_resp"
  /\ \E d \in {0, 1} :
       LET t == tasks[i]
           now == TempBase + clock + d
           optimistic == optimisticMessage(t.tmpId, t.capCur, t.content)
       IN /\ conversations' = upsertPrepended(conversations, t.respConv)
          /\ currentConversation' = t.respConv
          /\ messages' = reconcileCreated(messages, optimistic, now, t.respCid, t.respMsg)
          /\ tasks' = [tasks EXCEPT ![i] =
                [@ EXCEPT !.pc = "done", !.outcome = "ok",
                          !.away = t.navigated, !.respConv = NoConv]]
          /\ clock' = clock + d
  /\ sendingMessage' = FALSE
  /\ message' = handleSend_settled(message, tasks[i].content, sendMessage_promise("ok"))
  /\ UNCHANGED <<loadingConversation, nOps, loader, server, reqs, auth>>

\* sendMessage_catch that clears the state the way selectConversation's
\* catch does.
sendMessage_catch_clears(i) ==
  /\ tasks[i].pc \in {"send_req", "send_conv_req"}
  /\ currentConversation' = NoConv
  /\ messages' = <<>>
  /\ sendingMessage' = FALSE
  /\ tasks' = [tasks EXCEPT ![i] =
        [@ EXCEPT !.pc = "done", !.outcome = "failed", !.errs = @ + 1]]
  /\ message' = handleSend_settled(message, tasks[i].content, sendMessage_promise("failed"))
  /\ UNCHANGED <<conversations, loadingConversation, nOps, clock, loader, server,
                 reqs, auth>>

\* catch and finally: the send request or the getConversation request was
\* rejected.
sendMessage_catch(i) ==
  /\ tasks[i].pc \in {"send_req", "send_conv_req"}
  /\ messages' = removeOptimistic(messages, tasks[i].tmpId)
  /\ sendingMessage' = FALSE
  /\ tasks' = [tasks EXCEPT ![i] =
        [@ EXCEPT !.pc = "done", !.outcome = "failed", !.errs = @ + 1]]
  /\ message' = handleSend_settled(message, tasks[i].content, sendMessage_promise("failed"))
  /\ UNCHANGED <<conversations, currentConversation, loadingConversation,
                 nOps, clock, loader, server, reqs, auth>>

----------------------------------------------------------------------------
\* Message.handleRegenerate -> regenerateMessage(messageId)

\* The messages that show the regenerate button.
Regenerable == {messages[k].id : k \in {j \in 1..Len(messages) : messages[j].role # "user"}}

regenerateMessage(messageId) ==
  /\ nOps < MaxOps
  /\ messageId \in Regenerable
  /\ sendingMessage' = TRUE
  /\ tasks' = [tasks EXCEPT ![nOps + 1] =
        [IdleTask EXCEPT !.kind = "regen", !.pc = "regen_req", !.arg = messageId,
                         !.seen = InFlightNow]]
  /\ nOps' = nOps + 1
  /\ UNCHANGED <<conversations, currentConversation, messages,
                 loadingConversation, clock, loader, server, reqs, message, auth>>

\* POST /chat/regenerate: the assistant message keeps its id and its place.
srvRegenerate(i) ==
  /\ tasks[i].pc = "regen_req"
  /\ \E c \in 1..Len(srvConvs) :
       /\ SrvAssistantAt(c, tasks[i].arg)
       /\ LET new == Msg(tasks[i].arg, c, "assistant", RegenText)
          IN /\ srvConvs' = [srvConvs EXCEPT ![c].msgs =
                   [k \in 1..Len(@) |-> IF @[k].id = tasks[i].arg THEN new ELSE @[k]]]
             /\ tasks' = [tasks EXCEPT ![i] =
                   [@ EXCEPT !.pc = "regen_resp", !.respCid = c, !.respMsg = new]]
  /\ UNCHANGED <<client, nOps, clock, loader, srvNextMsg, reqs, message, auth>>

regenerateMessage_resolved(i) ==
  /\ tasks[i].pc = "regen_resp"
  /\ messages' = replaceRegenerated(messages, tasks[i].arg, tasks[i].respMsg)
  /\ sendingMessage' = FALSE
  /\ tasks' = [tasks EXCEPT ![i] = [@ EXCEPT !.pc = "done", !.outcome = "ok"]]
  /\ UNCHANGED <<conversations, currentConversation, loadingConversation,
                 nOps, clock, loader, server, reqs, message, auth>>

regenerateMessage_catch(i) ==
  /\ tasks[i].pc = "regen_req"
  /\ sendingMessage' = FALSE
  /\ tasks' = [tasks EXCEPT ![i] =
        [@ EXCEPT !.pc = "done", !.outcome = "failed", !.errs = @ + 1]]
  /\ UNCHANGED <<conversations, currentConversation, messages,
                 loadingConversation, nOps, clock, loader, server, reqs, message, auth>>

----------------------------------------------------------------------------
\* ConversationItem.handleDelete -> deleteConversation(conversationId)

deleteConversation(conversationId) ==
  /\ nOps < MaxOps
  /\ conversationId \in Ids(conversations)
  /\ tasks' = [tasks EXCEPT ![nOps + 1] =
        [IdleTask EXCEPT !.kind = "delete", !.pc = "del_req",
                         !.arg = conversationId,
                         !.capCur = currentConversation.id,
                         !.seen = InFlightNow]]
  /\ nOps' = nOps + 1
  /\ UNCHANGED <<client, clock, loader, server, reqs, message, auth>>

\* DELETE /conversations/{id}: the conversation and all its messages.
srvDelete(i) ==
  /\ tasks[i].pc = "del_req"
  /\ SrvAlive(tasks[i].arg)
  /\ srvConvs' = [srvConvs EXCEPT ![tasks[i].arg] = [@ EXCEPT !.alive = FALSE, !.msgs = <<>>]]
  /\ tasks' = [tasks EXCEPT ![i] = [@ EXCEPT !.pc = "del_resp"]]
  /\ UNCHANGED <<client, nOps, clock, loader, srvNextMsg, reqs, message, auth>>

\* "If deleted conversation was current, clear it", with currentConversation
\* as the handler captured it.
deletedWasCurrent(capturedId, currentId, conversationId) ==
  capturedId = conversationId

deleteConversation_resolved(i) ==
  /\ tasks[i].pc = "del_resp"
  /\ conversations' = removeConversation(conversations, tasks[i].arg)
  /\ IF deletedWasCurrent(tasks[i].capCur, currentConversation.id, tasks[i].arg)
     THEN /\ currentConversation' = NoConv
          /\ messages' = <<>>
          /\ tasks' = [MarkWiped(tasks) EXCEPT ![i] =
                [@ EXCEPT !.pc = "done", !.outcome = "ok"]]
     ELSE /\ UNCHANGED <<currentConversation, messages>>
          /\ tasks' = [tasks EXCEPT ![i] = [@ EXCEPT !.pc = "done", !.outcome = "ok"]]
  /\ UNCHANGED <<loadingConversation, sendingMessage, nOps, clock, loader, server, reqs, message, auth>>

deleteConversation_catch(i) ==
  /\ tasks[i].pc = "del_req"
  /\ tasks' = [tasks EXCEPT ![i] =
        [@ EXCEPT !.pc = "done", !.outcome = "failed", !.errs = @ + 1]]
  /\ UNCHANGED <<client, nOps, clock, loader, server, reqs, message, auth>>

----------------------------------------------------------------------------

Next ==
  \/ srvListConversations
  \/ loadConversations_resolved
  \/ loadConversations_catch
  \/ \E c \in 1..Len(srvConvs) : selectConversation(c)
  \/ createNewConversation
  \/ \E text \in Contents : sendMessage(text)
  \/ \E m \in Regenerable : regenerateMessage(m)
  \/ \E c \in Ids(conversations) : deleteConversation(c)
  \/ \E i \in TaskIds :
       \/ srvGetConversation(i)
       \/ srvGetMessages(i)
       \/ srvSend(i)
       \/ srvRegenerate(i)
       \/ srvDelete(i)
       \/ selectConversation_fetched(i)
       \/ selectConversation_resolved(i)
       \/ selectConversation_catch(i)
       \/ sendMessage_resolvedExisting(i)
       \/ sendMessage_fetchCreated(i)
       \/ sendMessage_resolvedCreated(i)
       \/ sendMessage_catch(i)
       \/ regenerateMessage_resolved(i)
       \/ regenerateMessage_catch(i)
       \/ deleteConversation_resolved(i)
       \/ deleteConversation_catch(i)

\* Every caller of the context may pass selectConversation any id.
Spec == Init /\ [][Next]_vars

\* Sidebar.handleConversationClick: the sidebar lists `conversations`, so the
\* id it passes is the id of an entry of the list.
handleConversationClick(conversationId) ==
  /\ conversationId \in Ids(conversations)
  /\ selectConversation(conversationId)

\* The handlers as the components of the chat page invoke them.
NextUI ==
  \/ srvListConversations
  \/ loadConversations_resolved
  \/ loadConversations_catch
  \/ \E c \in Ids(conversations) : handleConversationClick(c)
  \/ createNewConversation
  \/ \E text \in Contents : sendMessage(text)
  \/ \E m \in Regenerable : regenerateMessage(m)
  \/ \E c \in Ids(conversations) : deleteConversation(c)
  \/ \E i \in TaskIds :
       \/ srvGetConversation(i)
       \/ srvGetMessages(i)
       \/ srvSend(i)
       \/ srvRegenerate(i)
       \/ srvDelete(i)
       \/ selectConversation_resolved(i)
       \/ selectConversation_catch(i)
       \/ sendMessage_resolvedExisting(i)
       \/ sendMessage_fetchCreated(i)
       \/ sendMessage_resolvedCreated(i)
       \/ sendMessage_catch(i)
       \/ regenerateMessage_resolved(i)
       \/ regenerateMessage_catch(i)
       \/ deleteConversation_resolved(i)
       \/ deleteConversation_catch(i)

SpecUI == Init /\ [][NextUI]_vars

\* The chat page some time after mount: the list has loaded, conversation 1
\* was clicked and its messages are displayed, no handler is in flight.
InitOpen ==
  /\ conversations = <<Conv(1, "hi"), Conv(2, "hi")>>
  /\ currentConversation = Conv(1, "hi")
  /\ messages = << Msg(1, 1, "user", "hi"), Msg(2, 1, "assistant", ReplyText) >>
  /\ loadingConversation = FALSE
  /\ sendingMessage = FALSE
  /\ tasks = [i \in TaskIds |-> IdleTask]
  /\ nOps = 0
  /\ clock = 1
  /\ loadPc = "done"
  /\ loadResp = <<>>
  /\ srvConvs = << SrvConv(1, "hi", << Msg(1, 1, "user", "hi"),
                                      Msg(2, 1, "assistant", ReplyText) >>),
                   SrvConv(2, "hi", << Msg(3, 2, "user", "hi"),
                                      Msg(4, 2, "assistant", ReplyText) >>) >>
  /\ srvNextMsg = 5
  /\ reqs = [r \in ReqIds |-> IdleReq]
  /\ message = ""
  /\ LoggedIn

\* The handlers of the chat page once the list has loaded.
NextOpen ==
  \/ \E c \in Ids(conversations) : handleConversationClick(c)
  \/ createNewConversation
  \/ \E text \in Contents : sendMessage(text)
  \/ \E m \in Regenerable : regenerateMessage(m)
  \/ \E c \in Ids(conversations) : deleteConversation(c)
  \/ \E i \in TaskIds :
       \/ srvGetConversation(i)
       \/ srvGetMessages(i)
       \/ srvSend(i)
       \/ srvRegenerate(i)
       \/ srvDelete(i)
       \/ selectConversation_resolved(i)
       \/ selectConversation_catch(i)
       \/ sendMessage_resolvedExisting(i)
       \/ sendMessage_fetchCreated(i)
       \/ sendMessage_resolvedCreated(i)
       \/ sendMessage_catch(i)
       \/ regenerateMessage_resolved(i)
       \/ regenerateMessage_catch(i)
       \/ deleteConversation_resolved(i)
       \/ deleteConversation_catch(i)

SpecOpen == InitOpen /\ [][NextOpen]_vars

----------------------------------------------------------------------------
\* POST /chat/send, request by request: Received -> {NoneBranch |
\* InternetBranch | AutoBranch} -> Persisted -> Responded.  The calls to the
\* Inference and Search Adapters are the suspension points; each either
\* succeeds or fails.

frontendState == <<client, tasks, nOps, clock, loader, message, auth>>

\* The record store when the server starts handling requests: one conversation
\* with a history shorter or longer than the window.
InitServer ==
  /\ conversations = <<>>
  /\ currentConversation = NoConv
  /\ messages = <<>>
  /\ loadingConversation = FALSE
  /\ sendingMessage = FALSE
  /\ tasks = [i \in TaskIds |-> IdleTask]
  /\ nOps = 0
  /\ clock = 1
  /\ loadPc = "req"
  /\ loadResp = <<>>
  /\ \E h \in HistoryLens :
       /\ srvConvs = << SrvConv(1, "hi", History(h)) >>
       /\ srvNextMsg = h + 1
  /\ reqs = [r \in ReqIds |-> IdleReq]
  /\ message = ""
  /\ LoggedIn

Called(r, branch, adapter) == reqs[r].called \cup {<<branch, adapter>>}

\* A chat request arrives with the mode field it was sent with.
receive(r, origin, model, mode, conversationId) ==
  /\ reqs[r].pc = "idle"
  /\ \A q \in 1..(r - 1) : reqs[q].pc # "idle"
  /\ conversationId = 0 \/ SrvAlive(conversationId)
  /\ reqs' = [reqs EXCEPT ![r] =
        [@ EXCEPT !.pc = "Received", !.origin = origin, !.model = model, !.mode = mode,
                  !.cid = conversationId, !.text = "hi"]]
  /\ UNCHANGED <<frontendState, server>>

\* The request the client builds in sendMessage.
chatSend(r, selectedModel, conversationId) ==
  receive(r, "ChatProvider", selectedModel, toolSelection(selectedModel), conversationId)

\* A request of another caller of the API, its mode unknown or missing.
postChatSend(r, mode, conversationId) ==
  receive(r, "api", "llama3:latest", mode, conversationId)

\* Received: the history is read and windowed, the branch selected.
dispatch(r) ==
  /\ reqs[r].pc = "Received"
  /\ LET history == IF reqs[r].cid = 0 THEN <<>> ELSE srvConvs[reqs[r].cid].msgs
         branch == Branch(reqs[r].mode)
     IN reqs' = [reqs EXCEPT ![r] =
          [@ EXCEPT !.pc = IF branch = "AutoBranch" THEN "Deciding" ELSE branch,
                    !.iter = IF branch = "AutoBranch" THEN 1 ELSE 0,
                    !.before = history,
                    !.window = ContextWindow(history, CHAT_MEMORY_BUFFER_SIZE)]]
  /\ UNCHANGED <<frontendState, server>>

\* NoneBranch: window history -> Inference Adapter, success.
noneBranch_completed(r) ==
  /\ reqs[r].pc = "NoneBranch"
  /\ reqs' = [reqs EXCEPT ![r] =
        [@ EXCEPT !.pc = "Persisting",
                  !.called = Called(r, "NoneBranch", "inference"),
                  !.answer = Complete(reqs[r].window, 0),
                  !.from = InferenceInput(reqs[r].window, 0),
                  !.toolUsed = "none"]]
  /\ UNCHANGED <<frontendState, server>>

\* noneBranch_failed with the user message stored before the error response.
noneBranch_failed_keepsUser(r) ==
  /\ reqs[r].pc = "NoneBranch"
  /\ reqs[r].cid # 0
  /\ srvConvs' = [srvConvs EXCEPT ![reqs[r].cid].msgs =
                    Append(@, Msg(srvNextMsg, reqs[r].cid, "user", reqs[r].text))]
  /\ srvNextMsg' = srvNextMsg + 1
  /\ reqs' = [reqs EXCEPT ![r] =
        [@ EXCEPT !.pc = "Responded", !.status = "error",
                  !.called = Called(r, "NoneBranch", "inference")]]
  /\ UNCHANGED frontendState

\* NoneBranch, the Inference Adapter fails: error response.
noneBranch_failed(r) ==
  /\ reqs[r].pc = "NoneBranch"
  /\ reqs' = [reqs EXCEPT ![r] =
        [@ EXCEPT !.pc = "Responded", !.status = "error",
                  !.called = Called(r, "NoneBranch", "inference")]]
  /\ UNCHANGED <<frontendState, server>>

\* internetBranch_found that has the Inference Adapter summarise the snippets.
internetBranch_found_summarised(r) ==
  /\ reqs[r].pc = "InternetBranch"
  /\ reqs' = [reqs EXCEPT ![r] =
        [@ EXCEPT !.pc = "Persisting",
                  !.called = reqs[r].called \cup {<<"InternetBranch", "search">>,
                                                   <<"InternetBranch", "inference">>},
                  !.answer = GroundedText,
                  !.toolUsed = "internet"]]
  /\ UNCHANGED <<frontendState, server>>

\* InternetBranch: Search Adapter on the raw user text, success.
internetBranch_found(r) ==
  /\ reqs[r].pc = "InternetBranch"
  /\ reqs' = [reqs EXCEPT ![r] =
        [@ EXCEPT !.pc = "Persisting",
                  !.called = Called(r, "InternetBranch", "search"),
                  !.answer = SearchText,
                  !.toolUsed = "internet"]]
  /\ UNCHANGED <<frontendState, server>>

\* InternetBranch, the Search Adapter fails: error response.
internetBranch_failed(r) ==
  /\ reqs[r].pc = "InternetBranch"
  /\ reqs' = [reqs EXCEPT ![r] =
        [@ EXCEPT !.pc = "Responded", !.status = "error",
                  !.called = Called(r, "InternetBranch", "search")]]
  /\ UNCHANGED <<frontendState, server>>

\* Agent Loop, Deciding: the Inference Adapter emits a tool invocation.
agent_decidedTool(r) ==
  /\ reqs[r].pc = "Deciding"
  /\ reqs' = [reqs EXCEPT ![r] =
        [@ EXCEPT !.pc = "ToolCall", !.agentCalls = @ + 1,
                  !.called = Called(r, "AutoBranch", "inference")]]
  /\ UNCHANGED <<frontendState, server>>

\* Agent Loop, Deciding: the Inference Adapter emits a final answer.
agent_decidedFinal(r) ==
  /\ reqs[r].pc = "Deciding"
  /\ reqs' = [reqs EXCEPT ![r] =
        [@ EXCEPT !.pc = "Persisting", !.agentCalls = @ + 1,
                  !.called = Called(r, "AutoBranch", "inference"),
                  !.answer = Complete(reqs[r].window, reqs[r].obs),
                  !.from = InferenceInput(reqs[r].window, reqs[r].obs),
                  !.toolUsed = "auto"]]
  /\ UNCHANGED <<frontendState, server>>

\* agent_inferenceFailed that surfaces the adapter's failure to the caller.
agent_inferenceFailed_surfaces(r) ==
  /\ reqs[r].pc \in {"Deciding", "Finalizing"}
  /\ reqs' = [reqs EXCEPT ![r] =
        [@ EXCEPT !.pc = "Responded", !.status = "error", !.agentCalls = @ + 1,
                  !.called = Called(r, "AutoBranch", "inference")]]
  /\ UNCHANGED <<frontendState, server>>

\* Agent Loop: an Inference Adapter call fails; the loop fails and the
\* dispatcher falls back to NoneBranch with the same windowed history.
agent_inferenceFailed(r) ==
  /\ reqs[r].pc \in {"Deciding", "Finalizing"}
  /\ reqs' = [reqs EXCEPT ![r] =
        [@ EXCEPT !.pc = "NoneBranch", !.fellBack = TRUE, !.agentCalls = @ + 1,
                  !.called = Called(r, "AutoBranch", "inference")]]
  /\ UNCHANGED <<frontendState, server>>

\* agent_observed without the iteration ceiling.
agent_observed_unbounded(r) ==
  /\ reqs[r].pc = "ToolCall"
  /\ reqs' = [reqs EXCEPT ![r] =
        [@ EXCEPT !.pc = "Deciding", !.iter = @ + 1, !.obs = @ + 1,
                  !.agentCalls = @ + 1,
                  !.called = Called(r, "AutoBranch", "search")]]
  /\ UNCHANGED <<frontendState, server>>

\* Agent Loop, ToolCall -> Observing: the Search Adapter's result is appended
\* to the transcript; the next iteration, or Finalizing at the ceiling.
agent_observed(r) ==
  /\ reqs[r].pc = "ToolCall"
  /\ reqs' = [reqs EXCEPT ![r] =
        [@ EXCEPT !.pc = IF reqs[r].iter < LLAMAINDEX_MAX_ITERATIONS
                         THEN "Deciding" ELSE "Finalizing",
                  !.iter = IF @ < LLAMAINDEX_MAX_ITERATIONS THEN @ + 1 ELSE @,
                  !.obs = @ + 1, !.agentCalls = @ + 1,
                  !.called = Called(r, "AutoBranch", "search")]]
  /\ UNCHANGED <<frontendState, server>>

\* Agent Loop, ToolCall: the Search Adapter is NotConfigured; the loop goes
\* on to a final-answer attempt over the transcript so far.
agent_toolUnavailable(r) ==
  /\ reqs[r].pc = "ToolCall"
  /\ reqs' = [reqs EXCEPT ![r] =
        [@ EXCEPT !.pc = "Finalizing", !.agentCalls = @ + 1,
                  !.called = Called(r, "AutoBranch", "search")]]
  /\ UNCHANGED <<frontendState, server>>

\* Agent Loop, ToolCall: the Search Adapter is RateLimited or Unreachable;
\* the loop fails and the dispatcher falls back to NoneBranch.
agent_searchFailed(r) ==
  /\ reqs[r].pc = "ToolCall"
  /\ reqs' = [reqs EXCEPT ![r] =
        [@ EXCEPT !.pc = "NoneBranch", !.fellBack = TRUE, !.agentCalls = @ + 1,
                  !.called = Called(r, "AutoBranch", "search")]]
  /\ UNCHANGED <<frontendState, server>>

\* Agent Loop, Finalizing: the final Inference Adapter call succeeds.
agent_finalized(r) ==
  /\ reqs[r].pc = "Finalizing"
  /\ reqs' = [reqs EXCEPT ![r] =
        [@ EXCEPT !.pc = "Persisting", !.agentCalls = @ + 1,
                  !.called = Called(r, "AutoBranch", "inference"),
                  !.answer = Complete(reqs[r].window, reqs[r].obs),
                  !.from = InferenceInput(reqs[r].window, reqs[r].obs),
                  !.toolUsed = "auto"]]
  /\ UNCHANGED <<frontendState, server>>

\* The conversation a request's messages go to, created when absent.
TargetConversation(r) ==
  IF reqs[r].cid = 0 THEN Len(srvConvs) + 1 ELSE reqs[r].cid

\* persist that stores the user message and the assistant message in two
\* steps.
persist_inTwoSteps(r) ==
  /\ reqs[r].pc = "Persisting"
  /\ IF reqs[r].userId = 0
     THEN LET c == TargetConversation(r)
              userMsg == Msg(srvNextMsg, c, "user", reqs[r].text)
          IN /\ srvConvs' = IF reqs[r].cid = 0
                            THEN Append(srvConvs, SrvConv(c, reqs[r].text, <<userMsg>>))
                            ELSE [srvConvs EXCEPT ![c].msgs = Append(@, userMsg)]
             /\ reqs' = [reqs EXCEPT ![r] =
                   [@ EXCEPT !.userId = userMsg.id, !.respCid = c]]
     ELSE LET c == reqs[r].respCid
              asstMsg == Msg(srvNextMsg, c, "assistant", reqs[r].answer)
          IN /\ srvConvs' = [srvConvs EXCEPT ![c].msgs = Append(@, asstMsg)]
             /\ reqs' = [reqs EXCEPT ![r] =
                   [@ EXCEPT !.pc = "Persisted", !.asstId = asstMsg.id]]
  /\ srvNextMsg' = srvNextMsg + 1
  /\ UNCHANGED frontendState

\* Persisted: ensureConversation, then the user message and the assistant
\* message are appended, in that order, in one step of the store.
persist(r) ==
  /\ reqs[r].pc = "Persisting"
  /\ LET c == TargetConversation(r)
         userMsg == Msg(srvNextMsg, c, "user", reqs[r].text)
         asstMsg == Msg(srvNextMsg + 1, c, "assistant", reqs[r].answer)
     IN /\ srvConvs' = IF reqs[r].cid = 0
                       THEN Append(srvConvs, SrvConv(c, reqs[r].text, <<userMsg, asstMsg>>))
                       ELSE [srvConvs EXCEPT ![c].msgs = @ \o <<userMsg, asstMsg>>]
        /\ reqs' = [reqs EXCEPT ![r] =
              [@ EXCEPT !.pc = "Persisted", !.userId = userMsg.id,
                        !.asstId = asstMsg.id, !.respCid = c]]
  /\ srvNextMsg' = srvNextMsg + 2
  /\ UNCHANGED frontendState

\* Responded: the response envelope goes to the caller.
respond(r) ==
  /\ reqs[r].pc = "Persisted"
  /\ reqs' = [reqs EXCEPT ![r] = [@ EXCEPT !.pc = "Responded", !.status = "ok"]]
  /\ UNCHANGED <<frontendState, server>>

NextServer ==
  \E r \in ReqIds :
    \/ \E selectedModel \in ModelNames : \E c \in {0, 1} : chatSend(r, selectedModel, c)
    \/ \E mode \in UnknownModes : \E c \in {0, 1} : postChatSend(r, mode, c)
    \/ dispatch(r)
    \/ noneBranch_completed(r)
    \/ noneBranch_failed(r)
    \/ internetBranch_found(r)
    \/ internetBranch_failed(r)
    \/ agent_decidedTool(r)
    \/ agent_decidedFinal(r)
    \/ agent_inferenceFailed(r)
    \/ agent_observed(r)
    \/ agent_toolUnavailable(r)
    \/ agent_searchFailed(r)
    \/ agent_finalized(r)
    \/ persist(r)
    \/ respond(r)

SpecServer == InitServer /\ [][NextServer]_vars

----------------------------------------------------------------------------
\* AuthProvider and apiClient: initializeAuth (the mount effect), login,
\* register, logout, and every request with the answer the server gives it.
\* A request that is rejected runs the response interceptor and then the
\* caller's catch and finally blocks.

chatState == <<client, tasks, nOps, clock, loader, server, reqs, message>>

\* What localStorage may hold when the page loads: nothing, the session of an
\* earlier login, a session whose 'user' item is not JSON, or the 'user' item
\* alone.
StoredSessions ==
  { NoSession,
    [access_token |-> "tokA", user |-> JSONstringify("alice")],
    [access_token |-> "tokA", user |-> Corrupt],
    [access_token |-> null, user |-> JSONstringify("alice")] }

InitAuth ==
  /\ conversations = <<>>
  /\ currentConversation = NoConv
  /\ messages = <<>>
  /\ loadingConversation = FALSE
  /\ sendingMessage = FALSE
  /\ tasks = [i \in TaskIds |-> IdleTask]
  /\ nOps = 0
  /\ clock = 1
  /\ loadPc = "req"
  /\ loadResp = <<>>
  /\ srvConvs = <<>>
  /\ srvNextMsg = 1
  /\ reqs = [r \in ReqIds |-> IdleReq]
  /\ message = ""
  /\ user = null
  /\ token = null
  /\ loading = TRUE
  /\ localStorage \in StoredSessions
  /\ authPc = "mount"
  /\ calls = [i \in CallIds |-> IdleCall]
  /\ nCalls = 0
  /\ navigating = FALSE
  /\ unauthorized = FALSE

\* initializeAuth: the stored token or the stored user is missing.
initializeAuth_noSession ==
  /\ authPc = "mount"
  /\ ~(getItem(localStorage, "access_token") # null /\ getItem(localStorage, "user") # null)
  /\ loading' = FALSE
  /\ authPc' = "done"
  /\ UNCHANGED <<user, token, localStorage, calls, nCalls, navigating,
                 unauthorized, chatState>>

\* initializeAuth: JSON.parse(storedUser) throws; the outer catch calls
\* logout(), finally clears loading.
initializeAuth_parseFailed ==
  /\ authPc = "mount"
  /\ getItem(localStorage, "access_token") # null /\ getItem(localStorage, "user") # null
  /\ ~Parses(getItem(localStorage, "user"))
  /\ user' = null
  /\ token' = null
  /\ localStorage' = removeItem(removeItem(localStorage, "access_token"), "user")
  /\ loading' = FALSE
  /\ authPc' = "done"
  /\ UNCHANGED <<calls, nCalls, navigating, unauthorized, chatState>>

\* initializeAuth: both items are stored; up to await authApi.getCurrentUser().
initializeAuth_verify ==
  /\ authPc = "mount"
  /\ nCalls < MaxCalls
  /\ getItem(localStorage, "access_token") # null /\ getItem(localStorage, "user") # null
  /\ Parses(getItem(localStorage, "user"))
  /\ token' = getItem(localStorage, "access_token")
  /\ user' = JSONparse(getItem(localStorage, "user"))
  /\ calls' = [calls EXCEPT ![nCalls + 1] = request("me")]
  /\ nCalls' = nCalls + 1
  /\ authPc' = "verify"
  /\ UNCHANGED <<loading, localStorage, navigating, unauthorized, chatState>>

\* getCurrentUser resolved: the user is refreshed in the state and in
\* localStorage; finally.
getCurrentUser_resolved(i, currentUser) ==
  /\ authPc = "verify"
  /\ calls[i].kind = "me" /\ calls[i].pc = "sent"
  /\ user' = currentUser
  /\ localStorage' = setItem(localStorage, "user", JSONstringify(currentUser))
  /\ loading' = FALSE
  /\ authPc' = "done"
  /\ calls' = settle(i, 200)
  /\ UNCHANGED <<token, nCalls, navigating, unauthorized, chatState>>

\* getCurrentUser rejected, with an inner catch that only reports the error.
getCurrentUser_rejected_keepsSession(i, status) ==
  /\ authPc = "verify"
  /\ calls[i].kind = "me" /\ calls[i].pc = "sent"
  /\ localStorage' = responseInterceptor(localStorage, status)
  /\ navigating' = (navigating \/ status = 401)
  /\ unauthorized' = (unauthorized \/ status = 401)
  /\ loading' = FALSE
  /\ authPc' = "done"
  /\ calls' = settle(i, status)
  /\ UNCHANGED <<user, token, nCalls, chatState>>

\* getCurrentUser rejected: the response interceptor, then the inner catch
\* calls logout(); finally.
getCurrentUser_rejected(i, status) ==
  /\ authPc = "verify"
  /\ calls[i].kind = "me" /\ calls[i].pc = "sent"
  /\ user' = null
  /\ token' = null
  /\ localStorage' = removeItem(removeItem(responseInterceptor(localStorage, status),
                                           "access_token"), "user")
  /\ navigating' = (navigating \/ status = 401)
  /\ unauthorized' = (unauthorized \/ status = 401)
  /\ loading' = FALSE
  /\ authPc' = "done"
  /\ calls' = settle(i, status)
  /\ UNCHANGED <<nCalls, chatState>>

\* LoginForm.onFinish -> login(email, password), up to await authApi.login.
\* The submit button shows its spinner while loading is true.
login ==
  /\ ~loading
  /\ nCalls < MaxCalls
  /\ loading' = TRUE
  /\ calls' = [calls EXCEPT ![nCalls + 1] = request("login")]
  /\ nCalls' = nCalls + 1
  /\ UNCHANGED <<user, token, localStorage, authPc, navigating, unauthorized,
                 chatState>>

login_resolved(i, accessToken, u) ==
  /\ calls[i].kind = "login" /\ calls[i].pc = "sent"
  /\ user' = u
  /\ token' = accessToken
  /\ localStorage' = setItem(setItem(localStorage, "access_token", accessToken),
                             "user", JSONstringify(u))
  /\ loading' = FALSE
  /\ unauthorized' = FALSE
  /\ calls' = settle(i, 200)
  /\ UNCHANGED <<authPc, nCalls, navigating, chatState>>

login_rejected(i, status) ==
  /\ calls[i].kind = "login" /\ calls[i].pc = "sent"
  /\ localStorage' = responseInterceptor(localStorage, status)
  /\ navigating' = (navigating \/ status = 401)
  /\ unauthorized' = (unauthorized \/ status = 401)
  /\ loading' = FALSE
  /\ calls' = settle(i, status)
  /\ UNCHANGED <<user, token, authPc, nCalls, chatState>>

\* SignupForm.onFinish -> register(email, password).
register ==
  /\ ~loading
  /\ nCalls < MaxCalls
  /\ loading' = TRUE
  /\ calls' = [calls EXCEPT ![nCalls + 1] = request("register")]
  /\ nCalls' = nCalls + 1
  /\ UNCHANGED <<user, token, localStorage, authPc, navigating, unauthorized,
                 chatState>>

register_resolved(i) ==
  /\ calls[i].kind = "register" /\ calls[i].pc = "sent"
  /\ loading' = FALSE
  /\ calls' = settle(i, 200)
  /\ UNCHANGED <<user, token, localStorage, authPc, nCalls, navigating,
                 unauthorized, chatState>>

register_rejected(i, status) ==
  /\ calls[i].kind = "register" /\ calls[i].pc = "sent"
  /\ localStorage' = responseInterceptor(localStorage, status)
  /\ navigating' = (navigating \/ status = 401)
  /\ unauthorized' = (unauthorized \/ status = 401)
  /\ loading' = FALSE
  /\ calls' = settle(i, status)
  /\ UNCHANGED <<user, token, authPc, nCalls, chatState>>

\* The sidebar's user menu.
logout ==
  /\ user # null
  /\ user' = null
  /\ token' = null
  /\ localStorage' = removeItem(removeItem(localStorage, "access_token"), "user")
  /\ UNCHANGED <<loading, authPc, calls, nCalls, navigating, unauthorized,
                 chatState>>

\* Any request of chatApi or conversationsApi.  What the route guard lets
\* through is left open: such a request may be issued at any time.
apiCall ==
  /\ nCalls < MaxCalls
  /\ calls' = [calls EXCEPT ![nCalls + 1] = request("api")]
  /\ nCalls' = nCalls + 1
  /\ UNCHANGED <<user, token, loading, localStorage, authPc, navigating,
                 unauthorized, chatState>>

apiCall_resolved(i) ==
  /\ calls[i].kind = "api" /\ calls[i].pc = "sent"
  /\ calls' = settle(i, 200)
  /\ UNCHANGED <<user, token, loading, localStorage, authPc, nCalls,
                 navigating, unauthorized, chatState>>

apiCall_rejected(i, status) ==
  /\ calls[i].kind = "api" /\ calls[i].pc = "sent"
  /\ localStorage' = responseInterceptor(localStorage, status)
  /\ navigating' = (navigating \/ status = 401)
  /\ unauthorized' = (unauthorized \/ status = 401)
  /\ calls' = settle(i, status)
  /\ UNCHANGED <<user, token, loading, authPc, nCalls, chatState>>

\* The browser loads the page (the redirect to '/login', or a reload): the
\* requests in flight are dropped, AuthProvider mounts with its initial state,
\* localStorage is kept.
pageLoad ==
  /\ nCalls < MaxCalls
  /\ user' = null
  /\ token' = null
  /\ loading' = TRUE
  /\ authPc' = "mount"
  /\ calls' = [i \in CallIds |->
                 IF calls[i].pc = "sent" THEN [calls[i] EXCEPT !.pc = "done"] ELSE calls[i]]
  /\ navigating' = FALSE
  /\ UNCHANGED <<localStorage, nCalls, unauthorized, chatState>>

NextAuth ==
  \/ initializeAuth_noSession
  \/ initializeAuth_parseFailed
  \/ initializeAuth_verify
  \/ login
  \/ register
  \/ logout
  \/ apiCall
  \/ pageLoad
  \/ \E i \in CallIds :
       \/ \E u \in Users : getCurrentUser_resolved(i, u)
       \/ \E status \in Rejections : getCurrentUser_rejected(i, status)
       \/ \E t \in Tokens, u \in Users : login_resolved(i, t, u)
       \/ \E status \in Rejections : login_rejected(i, status)
       \/ register_resolved(i)
       \/ \E status \in Rejections : register_rejected(i, status)
       \/ apiCall_resolved(i)
       \/ \E status \in Rejections : apiCall_rejected(i, status)

SpecAuth == InitAuth /\ [][NextAuth]_vars

----------------------------------------------------------------------------
\* Vocabulary of the properties.

\* The step is a continuation of handler i that ends it.
Completes(i) == tasks[i].pc # "done" /\ tasks'[i].pc = "done"

CompletesOk(i) == Completes(i) /\ tasks'[i].outcome = "ok"

CompletesFailed(i) == Completes(i) /\ tasks'[i].outcome = "failed"

\* The step is one of handler i's own (its invocation or a continuation).
OwnStep(i) == tasks[i].pc # tasks'[i].pc /\ tasks'[i].pc \notin {"send_resp", "send_conv_resp"}

SendIds == {i \in TaskIds : tasks[i].kind = "send"}

\* The pending entry of send i as it was inserted.
Pending(i) == optimisticMessage(tasks[i].tmpId, tasks[i].capCur, tasks[i].content)

SendAwaiting(i) ==
  tasks[i].pc \in {"send_req", "send_resp", "send_conv_req", "send_conv_resp"}

\* s holds at k a user entry with send i's text, directly followed by the
\* assistant message of send i's response.
PairAt(s, k, i) ==
  /\ k \in 1..(Len(s) - 1)
  /\ s[k].role = "user" /\ s[k].content = tasks[i].content
  /\ s[k + 1] .id = tasks[i].respMsg.id /\ s[k + 1].role = "assistant"

----------------------------------------------------------------------------
\* C1: when the user selected another conversation or started a new chat
\* while a send was in flight, the arrival of the send's response leaves the
\* displayed list and currentConversation as they are.
C1_StaleResponseLeavesDisplay ==
  [][\A i \in SendIds :
       (CompletesOk(i) /\ tasks[i].navigated /\ currentConversation.id # tasks[i].respCid)
         => (messages' = messages /\ currentConversation' = currentConversation)]_vars

\* C2: a send that was rejected leaves, when it completes, no entry with its
\* temporary id in the displayed list, whatever ran in between.
C2_RejectedSendRollsBack ==
  [][\A i \in SendIds :
       CompletesFailed(i) => ~HasId(messages', tasks[i].tmpId)]_vars

\* A rejected send has completed after the user navigated away and back to
\* a conversation that displays messages.
C2_Witness ==
  \E i \in SendIds :
    /\ tasks[i].pc = "done" /\ tasks[i].outcome = "failed"
    /\ tasks[i].navigated /\ Len(messages) > 0

\* C3: a first send (no conversation selected) that succeeds without
\* navigation in between ends with the created conversation exactly once in
\* the list and current, the pending entry stamped with its id, and the
\* assistant message last, directly after the user's entry.
C3_FirstSendReconciled ==
  [][\A i \in SendIds :
       (CompletesOk(i) /\ tasks[i].capCur = 0 /\ ~tasks[i].navigated)
         => LET cid == tasks[i].respCid
                n == Len(messages')
            IN /\ Cardinality({k \in 1..Len(conversations') : conversations'[k].id = cid}) = 1
               /\ currentConversation'.id = cid
               /\ \E k \in 1..Len(conversations') : conversations'[k] = currentConversation'
               /\ n >= 2
               /\ messages'[n] = tasks[i].respMsg
               /\ messages'[n - 1].role = "user"
               /\ messages'[n - 1].content = tasks[i].content
               /\ messages'[n - 1].conversation_id = cid]_vars

\* C4: after such a first send the displayed list is the store's list of the
\* created conversation: the persisted user and assistant messages, with the
\* ids the store assigned.
C4_FirstSendShowsPersisted ==
  [][\A i \in SendIds :
       (CompletesOk(i) /\ tasks[i].capCur = 0 /\ ~tasks[i].navigated)
         => /\ messages' = srvConvs[tasks[i].respCid].msgs
            /\ Len(messages') = 2
            /\ \A k \in 1..Len(messages') : messages'[k].id < TempBase]_vars

\* The handlers i and j were in flight at the same time.
Overlapped(i, j) == i \in tasks[j].seen \/ j \in tasks[i].seen

RegenIds == {j \in TaskIds : tasks[j].kind = "regen"}

\* Nothing but handler i's own continuations and regenerates touched the list
\* that was displayed when send i was invoked.
Undisturbed(i) ==
  /\ ~tasks[i].navigated /\ ~tasks[i].wiped
  /\ \A k \in SendIds \ {i} : ~Overlapped(i, k)

\* No third send or regenerate was in flight together with send i or with
\* regenerate j.
PairAlone(i, j) ==
  \A k \in (SendIds \cup RegenIds) \ {i, j} : ~Overlapped(i, k) /\ ~Overlapped(j, k)

\* C5: a regenerate and a send that overlap on the displayed conversation, with
\* no navigation and no third send or regenerate in flight alongside them, end,
\* in either order of their responses, with the same list: the list the send
\* started from with the target replaced in place, then the send's user
\* entry, then its assistant message.
C5_RegenerateAndSendCommute ==
  [][\A i \in SendIds : \A j \in RegenIds :
       ( /\ Overlapped(i, j)
         /\ \/ CompletesOk(i) /\ tasks[j].pc = "done" /\ tasks[j].outcome = "ok"
            \/ CompletesOk(j) /\ tasks[i].pc = "done" /\ tasks[i].outcome = "ok"
         /\ Undisturbed(i) /\ ~tasks[j].navigated /\ ~tasks[j].wiped
         /\ PairAlone(i, j) )
       => LET n == Len(messages')
              b == Len(tasks[i].base)
          IN /\ n = b + 2
             /\ SubSeq(messages', 1, b)
                  = [k \in 1..b |-> IF tasks[i].base[k].id = tasks[j].arg
                                    THEN tasks[j].respMsg ELSE tasks[i].base[k]]
             /\ \E k \in 1..b : tasks[i].base[k].id = tasks[j].arg
             /\ messages'[n - 1].role = "user"
             /\ messages'[n - 1].content = tasks[i].content
             /\ messages'[n] = tasks[i].respMsg]_vars

\* A send and a regenerate that overlapped on the displayed conversation have
\* both completed.
C5_Witness ==
  \E i \in SendIds : \E j \in RegenIds :
    /\ Overlapped(i, j) /\ Undisturbed(i) /\ ~tasks[j].navigated /\ ~tasks[j].wiped
    /\ PairAlone(i, j)
    /\ tasks[i].pc = "done" /\ tasks[i].outcome = "ok"
    /\ tasks[j].pc = "done" /\ tasks[j].outcome = "ok"
    /\ Len(messages) = Len(tasks[i].base) + 2
    /\ messages[Len(messages)] = tasks[i].respMsg
    /\ \E k \in 1..Len(messages) : messages[k] = tasks[j].respMsg /\ messages[k].content = RegenText

\* C6: a selectConversation(X) made after a send to X was applied while
\* another conversation was displayed shows, when it completes, that send's
\* user message directly followed by its assistant message.
C6_SwitchBackShowsExchange ==
  [][\A j \in TaskIds :
       (tasks[j].kind = "select" /\ CompletesOk(j))
         => \A i \in tasks[j].after : \E k \in 1..Len(messages') : PairAt(messages', k, i)]_vars

\* A select made after such a send has completed and the exchange is shown.
C6_Witness ==
  \E j \in TaskIds : \E i \in SendIds :
    /\ tasks[j].kind = "select" /\ tasks[j].pc = "done" /\ tasks[j].outcome = "ok"
    /\ i \in tasks[j].after
    /\ currentConversation.id = tasks[i].respCid
    /\ \E k \in 1..Len(messages) : PairAt(messages, k, i)

\* C7: a failing first send neither adds nor selects a conversation in any of
\* its own steps, and raises exactly one error notification.
C7_FailedFirstSendFrame ==
  [][\A i \in TaskIds :
       ( /\ tasks'[i].kind = "send" /\ tasks'[i].capCur = 0
         /\ OwnStep(i) /\ tasks'[i].outcome # "ok" )
       => /\ conversations' = conversations
          /\ currentConversation' = currentConversation
          /\ tasks'[i].errs = IF tasks'[i].outcome = "failed" THEN 1 ELSE 0]_vars

\* A first send has failed while a conversation is listed and none is shown.
C7_Witness ==
  \E i \in SendIds :
    /\ tasks[i].capCur = 0 /\ tasks[i].pc = "done" /\ tasks[i].outcome = "failed"
    /\ tasks[i].errs = 1 /\ ~tasks[i].navigated
    /\ currentConversation = NoConv /\ Len(conversations) > 0

C9_RegenerateInPlace ==
  [][\A j \in RegenIds :
       CompletesOk(j)
         => /\ Len(messages') = Len(messages)
            /\ \A k \in 1..Len(messages) :
                 messages'[k] = IF messages[k].id = tasks[j].arg
                                THEN tasks[j].respMsg ELSE messages[k]
            /\ (~HasId(messages, tasks[j].arg) => messages' = messages)]_vars

\* A regenerate has completed and its message is shown in place, between
\* other entries.
C9_Witness ==
  \E j \in RegenIds :
    /\ tasks[j].pc = "done" /\ tasks[j].outcome = "ok"
    /\ \E k \in 1..Len(messages) :
         /\ messages[k] = tasks[j].respMsg /\ messages[k].content = RegenText
         /\ k > 1 /\ k < Len(messages)

\* C10: when deleteConversation(X) returns successfully, X is not in the
\* list and is not the current conversation with messages displayed.
C10_DeletedNotShown ==
  [][\A i \in TaskIds :
       (tasks[i].kind = "delete" /\ CompletesOk(i))
         => /\ tasks[i].arg \notin Ids(conversations')
            /\ ~(currentConversation'.id = tasks[i].arg /\ Len(messages') > 0)]_vars

\* C11: createNewConversation creates nothing in the store and lists nothing:
\* it leaves currentConversation null and the displayed list empty, and every
\* conversation the store holds after any step has at least one message.
C11_DraftIsLocalOnly ==
  [][ /\ createNewConversation
           => /\ srvConvs' = srvConvs /\ srvNextMsg' = srvNextMsg
              /\ conversations' = conversations
              /\ currentConversation' = NoConv /\ messages' = <<>>
              /\ \A i \in TaskIds : tasks'[i].pc = tasks[i].pc
      /\ \A c \in 1..Len(srvConvs') :
           srvConvs'[c].alive => Len(srvConvs'[c].msgs) >= 1 ]_vars

\* New chat was started while a send to a shown conversation was in flight:
\* only createNewConversation can have cleared the selection.
C11_Witness ==
  /\ currentConversation = NoConv /\ messages = <<>>
  /\ \A i \in TaskIds : tasks[i].kind \in {"select", "delete"} => tasks[i].outcome = "ok"
  /\ \A i \in TaskIds : tasks[i].kind = "delete" => tasks[i].capCur # tasks[i].arg
  /\ \E i \in SendIds : tasks[i].capCur # 0 /\ InFlight(tasks[i]) /\ tasks[i].navigated
  /\ Len(srvConvs) > 2

\* C20: of two overlapping calls selectConversation(A), selectConversation(B),
\* B called last and for another conversation, the one that completes last
\* leaves B current with B's messages displayed, in either order of the two
\* responses (no other handler touching the display in between).
C20_LastSelectionWins ==
  [][\A a \in TaskIds : \A b \in TaskIds :
       ( /\ a < b
         /\ tasks[a].kind = "select" /\ tasks[b].kind = "select"
         /\ tasks[a].arg # tasks[b].arg
         /\ a \in tasks[b].seen
         /\ \/ CompletesOk(a) /\ tasks[b].pc = "done" /\ tasks[b].outcome = "ok"
            \/ CompletesOk(b) /\ tasks[a].pc = "done" /\ tasks[a].outcome = "ok"
         /\ \A k \in TaskIds \ {a, b} : tasks[k].kind = "none" )
       => /\ currentConversation'.id = tasks[b].arg
          /\ Len(messages') > 0
          /\ \A k \in 1..Len(messages') :
               messages'[k].conversation_id = tasks[b].arg]_vars

\* The empty and the whitespace-only texts.
BlankTexts == {"", " "}

\* Vocabulary of the dispatcher's properties.
Answered(r) == reqs[r].pc = "Responded" /\ reqs[r].status = "ok"

Failed(r) == reqs[r].pc = "Responded" /\ reqs[r].status = "error"

\* The window the Context Windower yields for the history request r read.
WindowOf(r) == ContextWindow(reqs[r].before, CHAT_MEMORY_BUFFER_SIZE)

\* The message with this id in the store, where the store holds it.
StoredAt(c, k, id) ==
  /\ c \in 1..Len(srvConvs) /\ k \in 1..Len(srvConvs[c].msgs)
  /\ srvConvs[c].msgs[k].id = id

\* C12: an auto request whose agent path failed is answered as the none path
\* answers the same request over the same windowed history, tool_used "none",
\* and the caller of an auto request gets an error only when the fallback's
\* own Inference Adapter call failed.
C12_FallbackIsNoneBranch ==
  \A r \in ReqIds :
    Branch(reqs[r].mode) = "AutoBranch" =>
      /\ (Answered(r) /\ reqs[r].fellBack) =>
            /\ reqs[r].toolUsed = "none"
            /\ reqs[r].from = InferenceInput(WindowOf(r), 0)
            /\ reqs[r].answer = ReplyText
            /\ \E k \in 1..Len(srvConvs[reqs[r].respCid].msgs) :
                  /\ StoredAt(reqs[r].respCid, k, reqs[r].asstId)
                  /\ srvConvs[reqs[r].respCid].msgs[k].content = ReplyText
      /\ Failed(r) =>
            /\ reqs[r].fellBack
            /\ <<"NoneBranch", "inference">> \in reqs[r].called
      /\ (Answered(r) /\ ~reqs[r].fellBack) => reqs[r].toolUsed = "auto"

\* An auto request, its agent failed after it had made observations over a
\* history longer than the window, was answered by the fallback.
C12_Witness ==
  \E r \in ReqIds :
    /\ reqs[r].mode = "auto" /\ reqs[r].fellBack /\ Answered(r)
    /\ reqs[r].obs > 0
    /\ <<"AutoBranch", "inference">> \in reqs[r].called
    /\ Len(reqs[r].before) > CHAT_MEMORY_BUFFER_SIZE

\* The number of messages the store holds.
StoredCount(convs) ==
  Cardinality({ck \in (1..Len(convs)) \X (1..(srvNextMsg + 1)) :
                 ck[2] <= Len(convs[ck[1]].msgs)})

\* Request r has stored messages.
HasStored(r) == reqs[r].userId # 0 \/ reqs[r].asstId # 0

\* C13: in every state the messages a request has stored are one user message
\* directly followed by one assistant message, each stored once, whatever
\* other requests on the conversation did in between.
C13_ExchangeNeverSplit ==
  \A r \in ReqIds :
    HasStored(r) =>
      LET c == reqs[r].respCid
          msgs == srvConvs[c].msgs
      IN /\ \E k \in 1..(Len(msgs) - 1) :
              /\ msgs[k].id = reqs[r].userId /\ msgs[k].role = "user"
              /\ msgs[k + 1].id = reqs[r].asstId /\ msgs[k + 1].role = "assistant"
         /\ Cardinality({k \in 1..Len(msgs) :
                           msgs[k].id \in {reqs[r].userId, reqs[r].asstId}}) = 2
         /\ StoredCount(srvConvs) + 1 = srvNextMsg

\* Two requests on conversation 1 read the same history, so neither had
\* stored its messages when the other was dispatched, and both were answered.
C13_Witness ==
  /\ \A r \in ReqIds : reqs[r].cid = 1 /\ Answered(r)
  /\ reqs[1].before = reqs[2].before
  /\ reqs[1].userId > reqs[2].userId
  /\ Len(srvConvs[1].msgs) = Len(reqs[1].before) + 4

\* C14: a request handled in none mode calls no adapter but the Inference
\* Adapter, a request handled in internet mode none but the Search Adapter,
\* and on no path does NoneBranch search or InternetBranch infer.
C14_BranchAdapters ==
  \A r \in ReqIds :
    /\ <<"NoneBranch", "search">> \notin reqs[r].called
    /\ <<"InternetBranch", "inference">> \notin reqs[r].called
    /\ (reqs[r].pc # "idle" /\ Branch(reqs[r].mode) = "NoneBranch")
         => reqs[r].called \subseteq {<<"NoneBranch", "inference">>}
    /\ (reqs[r].pc # "idle" /\ Branch(reqs[r].mode) = "InternetBranch")
         => reqs[r].called \subseteq {<<"InternetBranch", "search">>}

\* A none request and an internet request have both ended on their failure
\* paths, each after its adapter call.
C14_Witness ==
  \E r \in ReqIds : \E q \in ReqIds :
    /\ reqs[r].mode = "none" /\ Failed(r) /\ reqs[r].called # {}
    /\ reqs[q].mode = "internet" /\ Failed(q) /\ reqs[q].called # {}

\* C15: the agent loop never passes iteration M and makes at most 2M + 1
\* adapter calls; a loop in which every iteration decided for the tool stops
\* at iteration M and, its final Inference Adapter call succeeding, returns an
\* answer, tool_used "auto", not a failure.
C15_AgentLoopBounded ==
  \A r \in ReqIds :
    /\ reqs[r].iter <= LLAMAINDEX_MAX_ITERATIONS
    /\ reqs[r].obs <= LLAMAINDEX_MAX_ITERATIONS
    /\ reqs[r].agentCalls <= 2 * LLAMAINDEX_MAX_ITERATIONS + 1
    /\ reqs[r].pc \in {"Deciding", "ToolCall"} => reqs[r].obs = reqs[r].iter - 1
    /\ ( /\ reqs[r].obs = LLAMAINDEX_MAX_ITERATIONS
         /\ reqs[r].pc \notin {"Finalizing"} /\ ~reqs[r].fellBack )
       => /\ reqs[r].iter = LLAMAINDEX_MAX_ITERATIONS
          /\ reqs[r].toolUsed = "auto" /\ reqs[r].answer = GroundedText
          /\ reqs[r].status # "error"
          /\ reqs[r].agentCalls = 2 * LLAMAINDEX_MAX_ITERATIONS + 1

\* A loop whose M iterations all called the tool was answered.
C15_Witness ==
  \E r \in ReqIds :
    /\ reqs[r].obs = LLAMAINDEX_MAX_ITERATIONS /\ Answered(r)
    /\ reqs[r].toolUsed = "auto" /\ ~reqs[r].fellBack

C17_FailureStoresNothing ==
  [][\A r \in ReqIds :
       /\ (reqs[r].status # "error" /\ reqs'[r].status = "error")
            => /\ srvConvs' = srvConvs /\ srvNextMsg' = srvNextMsg
               /\ reqs'[r].pc = "Responded"
       /\ reqs'[r].status = "error"
            => /\ reqs'[r].userId = 0 /\ reqs'[r].asstId = 0
               /\ (\A q \in ReqIds : reqs'[q].userId = 0)
                    => /\ Len(srvConvs') = 1
                       /\ reqs'[r].cid # 0
                            => srvConvs'[reqs'[r].cid].msgs = reqs'[r].before]_vars

\* A request has failed in the auto-mode fallback and another in internet
\* mode, on the conversation the store started with.
C17_Witness ==
  \E r \in ReqIds : \E q \in ReqIds :
    /\ Failed(r) /\ reqs[r].fellBack /\ reqs[r].cid = 1
    /\ Failed(q) /\ reqs[q].mode = "internet"
    /\ srvConvs[1].msgs = reqs[r].before

\* C18: the mode of a request ChatProvider sends is "internet" for the
\* selected model "internet", "auto" for "auto" and "none" for every other
\* model name, the empty one included.
C18_ModeFromSelectedModel ==
  [][\A r \in ReqIds :
       (reqs[r].pc = "idle" /\ reqs'[r].origin = "ChatProvider")
         => reqs'[r].mode = CASE reqs'[r].model = "internet" -> "internet"
                              [] reqs'[r].model = "auto" -> "auto"
                              [] OTHER -> "none"]_vars

\* Requests were sent with the empty model name and with a model name that is
\* no mode.
C18_Witness ==
  /\ reqs[1].origin = "ChatProvider" /\ reqs[1].model = "" /\ reqs[1].mode = "none"
  /\ reqs[2].origin = "ChatProvider" /\ reqs[2].model = "llama3:latest"
  /\ reqs[2].mode = "none"

\* C19: sendMessage with empty or whitespace-only content is no step of the
\* program: no request is issued, no pending message added, and sendingMessage,
\* conversations and currentConversation stay as they are; no handler and no
\* displayed message ever carries such content.
C19_BlankSendIsNoOp ==
  [][ /\ \A text \in BlankTexts : ~sendMessage(text)
      /\ \A i \in TaskIds : tasks'[i].kind = "send" => tasks'[i].content \notin BlankTexts
      /\ \A k \in 1..Len(messages') : messages'[k].content \notin BlankTexts ]_vars

\* Whitespace is typed and sent while a conversation is shown and every other
\* guard of handleSend and sendMessage lets a send through.
C19_Witness ==
  /\ " " \in Contents
  /\ ~sendingMessage /\ ~loadingConversation /\ nOps < MaxOps
  /\ currentConversation # NoConv /\ Len(messages) > 0
  /\ ENABLED sendMessage("hi")

\* The selectConversation calls still awaiting a fetch.
SelectsAwaiting == {j \in TaskIds : tasks[j].kind = "select" /\ InFlight(tasks[j])}

\* C21: no send is started (no pending message added, no request issued)
\* while a selectConversation call is still awaiting its fetches, also when
\* several such calls overlap.
C21_NoSendWhileLoading ==
  [][\A i \in TaskIds :
       (tasks[i].kind = "none" /\ tasks'[i].kind = "send") => SelectsAwaiting = {}]_vars

\* C25: sendingMessage is true in every state with a send or a regenerate
\* request in flight.
C25_SendingWhileInFlight ==
  (\E i \in TaskIds : tasks[i].kind \in {"send", "regen"} /\ InFlight(tasks[i]))
    => sendingMessage

\* C27: after a send was rolled back the store holds no conversation and no
\* message that send created.
C27_RollbackMeansNothingStored ==
  \A i \in SendIds :
    (tasks[i].pc = "done" /\ tasks[i].outcome = "failed")
      => /\ tasks[i].respCid = 0
         /\ ~\E c \in 1..Len(srvConvs) : \E k \in 1..Len(srvConvs[c].msgs) :
               /\ tasks[i].respMsg # NoMsg
               /\ srvConvs[c].msgs[k].id = tasks[i].respMsg.id

\* C28: a selectConversation(A) that fails leaves the current conversation
\* and the displayed messages alone when a selectConversation(B) called after
\* it has succeeded.
C28_FailedSelectSparesLater ==
  [][\A a \in TaskIds : \A b \in TaskIds :
       ( /\ a < b
         /\ tasks[a].kind = "select" /\ tasks[b].kind = "select"
         /\ tasks[a].arg # tasks[b].arg
         /\ CompletesFailed(a)
         /\ tasks[b].pc = "done" /\ tasks[b].outcome = "ok"
         /\ \A k \in TaskIds \ {a, b} : tasks[k].kind = "none" )
       => /\ currentConversation' = currentConversation
          /\ messages' = messages]_vars

\* C26: at most one send started from MessageInput is in flight at any time.
C26_OneSendInFlight ==
  Cardinality({i \in SendIds : SendAwaiting(i)}) <= 1

\* C22: when a send started from MessageInput fails, the input field holds
\* the submitted text again; when it succeeds the field stays empty.
C22_InputRestoredOnFailure ==
  [][\A i \in SendIds :
       /\ CompletesFailed(i) => message' = tasks[i].content
       /\ CompletesOk(i) => message' = ""]_vars

\* A request is issued / is answered 401 in this step.
Issued(i) == calls[i].pc = "idle" /\ calls'[i].pc = "sent"
Answered401(i) == calls[i].pc = "sent" /\ calls'[i].pc = "done" /\ calls'[i].status = 401

InitCompletes == authPc # "done" /\ authPc' = "done"
VerifyFailed ==
  \E i \in CallIds : /\ calls[i].kind = "me" /\ calls[i].pc = "sent"
                     /\ calls'[i].pc = "done" /\ calls'[i].status \in Rejections

\* C24: when initializeAuth completes loading is false; and when it completes
\* because getCurrentUser was rejected, user and token are null and localStorage
\* holds neither 'access_token' nor 'user'.
C24_InitEndsLoading ==
  [][InitCompletes =>
       /\ loading' = FALSE
       /\ VerifyFailed => /\ user' = null /\ token' = null
                          /\ localStorage' = NoSession]_vars

\* initializeAuth found a session, its verification failed for a reason other
\* than 401, and the session is gone.
C24_Witness ==
  /\ authPc = "done" /\ ~loading
  /\ user = null /\ token = null /\ localStorage = NoSession
  /\ \E i \in CallIds : calls[i].kind = "me" /\ calls[i].status = 500
                        /\ calls[i].header = Bearer("tokA")

====
